---- MODULE Spec2Model ----
(***************************************************************************)
(* Model of src/wled/models.py: the decoders that turn a WLED JSON payload *)
(* into Effect / Palette / Segment / Info / State objects, and the Device  *)
(* aggregate that is built from one payload and updated from later ones.   *)
(*                                                                         *)
(* Python values are modelled as follows.  A dict is a function whose      *)
(* DOMAIN is the set of keys present.  A JSON array is a sequence.  Where  *)
(* one slot can hold values of different Python types (None, int, list,    *)
(* dict, tuple) the value carries its type in a tag field t.               *)
(***************************************************************************)
EXTENDS Integers, Sequences, FiniteSets, TLC

VARIABLES
    phase,      \* "new": no Device object yet; "ready": __init__ returned
    effects,    \* Device.effects
    palettes,   \* Device.palettes
    info,       \* Device.info   (Unset while the attribute does not exist)
    state,      \* Device.state  (Unset while the attribute does not exist)
    given,      \* contents of the dict handed to the last call, at call time
    data,       \* contents of that same dict object after the call
    err,        \* exception raised by the last call, or "none"
    op,         \* the last call made
    calls,      \* per thread: the update_from_dict call in progress
    serialized, \* TRUE when the callers serialize their calls
    stateBy     \* the dict (as given) whose "state" was last decoded

vars == <<phase, effects, palettes, info, state, given, data, err, op,
          calls, serialized, stateBy>>

----------------------------------------------------------------------------
(* Python values *)

PyNone == [t |-> "None"]
PyInt(n) == [t |-> "int", v |-> <<n>>]
PyList(s) == [t |-> "list", v |-> s]
PyDict(d) == [t |-> "dict", v |-> d]
PyTuple(s) == [t |-> "tuple", v |-> s]
Unset == [t |-> "unset"]
EmptyDict == <<>>

\* data.get(k, default)
Get(d, k, default) == IF k \in DOMAIN d THEN d[k] ELSE default

\* "is not None" in place of truthiness
TruthyNotNone(x) == x.t # "None"

\* bool(x) for the values a top-level key can hold
Truthy(x) ==
    CASE x.t = "None" -> FALSE
      [] x.t = "list" -> x.v # <<>>
      [] x.t = "dict" -> DOMAIN x.v # {}

Min(a, b) == IF a < b THEN a ELSE b

----------------------------------------------------------------------------
(* str ordering: Python compares strings code point by code point *)

CodePoints ==
    [Blink   |-> <<66, 108, 105, 110, 107>>,
     Default |-> <<68, 101, 102, 97, 117, 108, 116>>,
     Party   |-> <<80, 97, 114, 116, 121>>,
     Solid   |-> <<83, 111, 108, 105, 100>>,
     Unknown |-> <<85, 110, 107, 110, 111, 119, 110>>]

RECURSIVE SeqLess(_, _)
SeqLess(a, b) ==
    IF b = <<>> THEN FALSE
    ELSE IF a = <<>> THEN TRUE
    ELSE IF Head(a) # Head(b) THEN Head(a) < Head(b)
    ELSE SeqLess(Tail(a), Tail(b))

StrLess(a, b) == SeqLess(CodePoints[a], CodePoints[b])

----------------------------------------------------------------------------
(* Effect / Palette catalogs *)

\* list.sort(key=lambda x: x.name): stable, ascending
RECURSIVE InsertByName(_, _)
InsertByName(sorted, x) ==
    IF sorted = <<>> THEN <<x>>
    ELSE IF StrLess(x.name, Head(sorted).name) THEN <<x>> \o sorted
    ELSE <<Head(sorted)>> \o InsertByName(Tail(sorted), x)

\* the sort left out
SortByNameOmitted(s) == s

RECURSIVE SortByName(_)
SortByName(s) ==
    IF s = <<>> THEN <<>>
    ELSE InsertByName(SortByName(SubSeq(s, 1, Len(s) - 1)), s[Len(s)])

BuildEffects(names) ==
    SortByName([i \in 1..Len(names) |-> [effect_id |-> i - 1, name |-> names[i]]])

BuildPalettes(names) ==
    SortByName([i \in 1..Len(names) |-> [palette_id |-> i - 1, name |-> names[i]]])

UnknownEffect == [effect_id |-> 0, name |-> "Unknown"]
UnknownPalette == [palette_id |-> 0, name |-> "Unknown"]

\* the table indexed by position in place of the search by effect_id
FindEffectByIndex(table, fx) ==
    IF fx + 1 \in DOMAIN table THEN table[fx + 1]
    ELSE [effect_id |-> 0, name |-> "Unknown"]

\* next((item for item in effects if item.effect_id == fx), Effect(0, "Unknown"))
RECURSIVE FindEffect(_, _)
FindEffect(table, fx) ==
    IF table = <<>> THEN UnknownEffect
    ELSE IF Head(table).effect_id = fx THEN Head(table)
    ELSE FindEffect(Tail(table), fx)

RECURSIVE FindPalette(_, _)
FindPalette(table, pal) ==
    IF table = <<>> THEN UnknownPalette
    ELSE IF Head(table).palette_id = pal THEN Head(table)
    ELSE FindPalette(Tail(table), pal)

----------------------------------------------------------------------------
(* Segment *)

\* primary, secondary, tertiary = (0, 0, 0) unpacks the tuple: each name is
\* bound to the integer 0.  Then up to three entries are popped off the
\* front of the "col" list; IndexError on an empty list ends the popping.
SegmentColor(colors, k) ==
    IF Len(colors) >= k THEN PyTuple(colors[k]) ELSE PyInt(0)

\* a fixed default in place of the State's value
SegmentOnFixedDefault(seg, state_on) == Get(seg, "on", FALSE)

\* on=data.get("on", state_on)
SegmentOn(seg, state_on) == Get(seg, "on", state_on)

\* brightness=data.get("bri", state_brightness)
SegmentBrightness(seg, state_brightness) == Get(seg, "bri", state_brightness)

SegmentFromDict(segment_id, seg, effectTable, paletteTable, state_on, state_brightness) ==
    LET start  == Get(seg, "start", 0)
        stop   == Get(seg, "stop", 0)
        colors == Get(seg, "col", <<>>)
    IN  [brightness      |-> SegmentBrightness(seg, state_brightness),
         clones          |-> Get(seg, "cln", -1),
         color_primary   |-> SegmentColor(colors, 1),
         color_secondary |-> SegmentColor(colors, 2),
         color_tertiary  |-> SegmentColor(colors, 3),
         effect          |-> FindEffect(effectTable, Get(seg, "fx", 0)),
         intensity       |-> Get(seg, "ix", 0),
         length          |-> Get(seg, "len", stop - start),
         on              |-> SegmentOn(seg, state_on),
         palette         |-> FindPalette(paletteTable, Get(seg, "pal", 0)),
         reverse         |-> Get(seg, "reverse", FALSE),
         segment_id      |-> segment_id,
         selected        |-> Get(seg, "sel", FALSE),
         speed           |-> Get(seg, "sx", 0),
         start           |-> start,
         stop            |-> stop]

\* colors.pop(0) removes the entry from the list held by the payload; when the
\* key is absent the list popped from is the fresh default [].
SegmentDataAfter(seg) ==
    IF "col" \in DOMAIN seg
    THEN [seg EXCEPT !["col"] = SubSeq(@, Min(3, Len(@)) + 1, Len(@))]
    ELSE seg

----------------------------------------------------------------------------
(* Nightlight, Sync, Leds, Wifi, Info *)

NightlightFromDict(d) ==
    LET nl == Get(d, "nl", EmptyDict)
    IN  [duration          |-> Get(nl, "dur", 1),
         fade              |-> Get(nl, "fade", FALSE),
         on                |-> Get(nl, "on", FALSE),
         target_brightness |-> Get(nl, "tbri", 0)]

SyncFromDict(d) ==
    LET sync == Get(d, "udpn", EmptyDict)
    IN  [send    |-> Get(sync, "send", FALSE),
         receive |-> Get(sync, "recv", FALSE)]

LedsFromDict(d) ==
    LET leds == Get(d, "leds", EmptyDict)
    IN  [count        |-> Get(leds, "count", 0),
         fps          |-> IF "fps" \in DOMAIN leds THEN PyInt(leds["fps"]) ELSE PyNone,
         max_power    |-> Get(leds, "maxpwr", 0),
         max_segments |-> Get(leds, "maxseg", 0),
         pin          |-> Get(leds, "pin", 0),
         power        |-> Get(leds, "pwr", 0),
         rgbw         |-> Get(leds, "rgbw", FALSE),
         wv           |-> Get(leds, "wv", TRUE)]

WifiFromDict(d) ==
    IF "wifi" \notin DOMAIN d THEN PyNone
    ELSE LET wifi == d["wifi"]
         IN  [bssid   |-> Get(wifi, "bssid", "00:00:00:00:00:00"),
              channel |-> Get(wifi, "channel", 0),
              rssi    |-> Get(wifi, "rssi", 0),
              signal  |-> Get(wifi, "signal", 0)]

\* A "core" string is a sequence of characters; str.replace("_", ".")
StrReplaceUnderscore(s) == [i \in DOMAIN s |-> IF s[i] = "_" THEN "." ELSE s[i]]

UnknownChars == <<"U", "n", "k", "n", "o", "w", "n">>

InfoFromDict(d) ==
    [architecture         |-> Get(d, "arch", "Unknown"),
     arduino_core_version |-> StrReplaceUnderscore(Get(d, "core", UnknownChars)),
     brand                |-> Get(d, "brand", "WLED"),
     build_type           |-> Get(d, "btype", "Unknown"),
     effect_count         |-> Get(d, "fxcount", 0),
     free_heap            |-> Get(d, "freeheap", 0),
     leds                 |-> LedsFromDict(d),
     live_ip              |-> Get(d, "lip", "Unknown"),
     live_mode            |-> Get(d, "lm", "Unknown"),
     live                 |-> Get(d, "live", FALSE),
     mac_address          |-> Get(d, "mac", ""),
     name                 |-> Get(d, "name", "WLED Light"),
     pallet_count         |-> Get(d, "palcount", 0),
     product              |-> Get(d, "product", "DIY Light"),
     udp_port             |-> Get(d, "udpport", 0),
     uptime               |-> Get(d, "uptime", 0),
     version_id           |-> Get(d, "vid", "Unknown"),
     version              |-> Get(d, "ver", "Unknown"),
     websocket            |-> IF "ws" \in DOMAIN d /\ d["ws"] # -1
                              THEN PyInt(d["ws"]) ELSE PyNone,
     wifi                 |-> WifiFromDict(d)]

----------------------------------------------------------------------------
(* State *)

StateFromDict(d, effectTable, paletteTable) ==
    LET brightness == Get(d, "bri", 1)
        on         == Get(d, "on", FALSE)
        segs       == Get(d, "seg", <<>>)
    IN  [brightness |-> brightness,
         nightlight |-> NightlightFromDict(d),
         on         |-> on,
         playlist   |-> Get(d, "pl", -1),
         preset     |-> Get(d, "ps", -1),
         segments   |-> [i \in 1..Len(segs) |->
                           SegmentFromDict(i - 1, segs[i], effectTable,
                                           paletteTable, on, brightness)],
         sync       |-> SyncFromDict(d),
         transition |-> Get(d, "transition", 0)]

\* the state dict after State.from_dict has decoded its segments
StateDataAfter(d) ==
    IF "seg" \in DOMAIN d
    THEN [d EXCEPT !["seg"] = [i \in 1..Len(@) |-> SegmentDataAfter(@[i])]]
    ELSE d

----------------------------------------------------------------------------
(* Device *)

RequiredKeys == <<"effects", "palettes", "info", "state">>

\* any(k not in data and data[k] is not None for k in [...]): the generator
\* is evaluated key by key.  For a key that is missing, the right operand
\* subscripts the dict with that key, which raises KeyError; for a key that
\* is present the conjunction is False.
RECURSIVE AnyMissing(_, _)
AnyMissing(d, keys) ==
    IF keys = <<>> THEN "False"
    ELSE IF Head(keys) \notin DOMAIN d THEN "KeyError"
    ELSE AnyMissing(d, Tail(keys))

\* the state decoded before the catalogs are replaced
StepOrderStateFirst == <<"state", "effects", "palettes", "info">>

\* the state decoded before the effects table is replaced
StepOrderStateBeforeEffects == <<"palettes", "info", "state", "effects">>

\* the order in which update_from_dict handles the four keys
StepOrder == <<"effects", "palettes", "info", "state">>

\* one "if _x := data.get(key): self.x = ..." block of update_from_dict;
\* c.self is the Device, c.data the dict being read
ApplyStep(key, c) ==
    LET v == Get(c.data, key, PyNone)
    IN  IF ~Truthy(v) THEN c
        ELSE CASE key = "effects" ->
                    [c EXCEPT !.self.effects = BuildEffects(v.v)]
               [] key = "palettes" ->
                    [c EXCEPT !.self.palettes = BuildPalettes(v.v)]
               [] key = "info" ->
                    [c EXCEPT !.self.info = InfoFromDict(v.v)]
               [] key = "state" ->
                    [c EXCEPT !.self.state =
                                  StateFromDict(v.v, c.self.effects, c.self.palettes),
                              !.data["state"] = PyDict(StateDataAfter(v.v))]

RECURSIVE RunSteps(_, _)
RunSteps(c, order) ==
    IF order = <<>> THEN c
    ELSE RunSteps(ApplyStep(Head(order), c), Tail(order))

UpdateFromDict(self, d) == RunSteps([self |-> self, data |-> d], StepOrder)

Self == [effects |-> effects, palettes |-> palettes, info |-> info, state |-> state]

SetSelf(s) ==
    /\ effects' = s.effects
    /\ palettes' = s.palettes
    /\ info' = s.info
    /\ state' = s.state

----------------------------------------------------------------------------
(* Payloads handed to the Device *)

EffectsIn ==
    {PyList(<<>>), PyList(<<"Solid", "Blink">>), PyList(<<"Blink", "Solid">>)}

PalettesIn ==
    {PyNone, PyList(<<"Party", "Default">>)}

InfoIn ==
    {PyDict(EmptyDict),
     PyDict([ver |-> "0.13.0", core |-> <<"2", "_", "7", "_", "4">>, ws |-> -1,
             wifi |-> EmptyDict, leds |-> [fps |-> 42, count |-> 30]])}

Red == <<255, 0, 0>>
Green == <<0, 255, 0>>
WarmWhite == <<0, 0, 0, 255>>

StateIn ==
    {PyDict(EmptyDict),
     PyDict([on |-> TRUE, bri |-> 128,
             seg |-> <<[fx |-> 0, pal |-> 0, start |-> 0, stop |-> 10,
                        col |-> <<Red>>],
                       [fx |-> 1, pal |-> 1, on |-> FALSE,
                        col |-> <<Red, Green, WarmWhite>>]>>])}

Opt(key, values) == {EmptyDict} \cup {key :> v : v \in values}

Payloads ==
    {e @@ p @@ i @@ s : e \in Opt("effects", EffectsIn),
                        p \in Opt("palettes", PalettesIn),
                        i \in Opt("info", InfoIn),
                        s \in Opt("state", StateIn)}

\* Payloads for the decoders: all four keys present, a state with up to
\* MaxSegs segments.  A segment varies its catalog references, or its colour
\* array, or its own on / bri.
MaxId == 2
MaxCol == 4
MaxSegs == 2

ColorAt(i) == IF i % 2 = 0 THEN <<0, i, 0, 255>> ELSE <<255, i, 0>>
ColArray(n) == [i \in 1..n |-> ColorAt(i)]

SegIn ==
    Opt("fx", 0..MaxId) \cup Opt("pal", 0..MaxId)
    \cup Opt("col", {ColArray(n) : n \in 0..MaxCol})
    \cup {o @@ b : o \in Opt("on", BOOLEAN), b \in Opt("bri", {7})}

SegArrays == UNION {[1..n -> SegIn] : n \in 0..MaxSegs}

DecodeStateIn ==
    {PyDict(o @@ b @@ ("seg" :> segs)) :
        o \in Opt("on", BOOLEAN), b \in Opt("bri", {128}), segs \in SegArrays}

DecodePayloads ==
    {[effects |-> e, palettes |-> PyList(<<"Party", "Default">>),
      info |-> PyDict([ver |-> "0.13.0"]), state |-> s] :
        e \in EffectsIn, s \in DecodeStateIn}

----------------------------------------------------------------------------
(* Operations *)

Threads == {1, 2}

IdleCall == [pc |-> 0, given |-> EmptyDict, data |-> EmptyDict]

InitDevice ==
    /\ phase = "new"
    /\ effects = <<>>
    /\ palettes = <<>>
    /\ info = Unset
    /\ state = Unset
    /\ given = EmptyDict
    /\ data = EmptyDict
    /\ err = "none"
    /\ op = "none"
    /\ calls = [t \in Threads |-> IdleCall]
    /\ stateBy = EmptyDict

Init == InitDevice /\ serialized = TRUE

\* Device(p)
Construct(p) ==
    /\ phase = "new"
    /\ op' = "construct"
    /\ given' = p
    /\ LET missing == AnyMissing(p, RequiredKeys)
       IN  IF missing = "KeyError"
           THEN /\ err' = "KeyError"
                /\ data' = p
                /\ UNCHANGED <<phase, effects, palettes, info, state>>
           ELSE IF missing = "True"
           THEN /\ err' = "WLEDError"
                /\ data' = p
                /\ UNCHANGED <<phase, effects, palettes, info, state>>
           ELSE \E c \in {UpdateFromDict(Self, p)} :
                    /\ err' = "none"
                    /\ data' = c.data
                    /\ phase' = "ready"
                    /\ SetSelf(c.self)
    /\ UNCHANGED <<calls, serialized, stateBy>>

\* device.update_from_dict(p)
Update(p) ==
    /\ phase = "ready"
    /\ \A t \in Threads : calls[t].pc = 0
    /\ op' = "update"
    /\ given' = p
    /\ err' = "none"
    /\ \E c \in {UpdateFromDict(Self, p)} :
           /\ data' = c.data
           /\ SetSelf(c.self)
    /\ UNCHANGED <<phase, calls, serialized, stateBy>>

\* device.update_from_dict(d) once more with the dict object d of the last call
UpdateSame ==
    /\ phase = "ready"
    /\ \A t \in Threads : calls[t].pc = 0
    /\ op' = "again"
    /\ given' = data
    /\ err' = "none"
    /\ \E c \in {UpdateFromDict(Self, data)} :
           /\ data' = c.data
           /\ SetSelf(c.self)
    /\ UNCHANGED <<phase, calls, serialized, stateBy>>

Next ==
    \/ phase = "new" /\ \E p \in Payloads : Construct(p)
    \/ phase = "ready" /\ \E p \in Payloads : Update(p)
    \/ UpdateSame

Spec == Init /\ [][Next]_vars

NextDecode == phase = "new" /\ \E p \in DecodePayloads : Construct(p)

SpecDecode == Init /\ [][NextDecode]_vars

----------------------------------------------------------------------------
(* Two update_from_dict calls made from two threads.  update_from_dict takes
   no lock: between two of its four blocks another thread may run.  When the
   callers serialize, a call begins only while no other call is in progress. *)

ConcPayloads ==
    {p \in Payloads :
        /\ DOMAIN p = {"effects", "palettes", "info", "state"}
        /\ Truthy(p["effects"]) /\ Truthy(p["palettes"]) /\ Truthy(p["state"])}

InitConc == InitDevice /\ serialized \in BOOLEAN

\* thread t enters update_from_dict(p)
Begin(t, p) ==
    /\ phase = "ready"
    /\ calls[t].pc = 0
    /\ serialized => \A u \in Threads : calls[u].pc \in {0, Len(StepOrder) + 1}
    /\ calls' = [calls EXCEPT ![t] = [pc |-> 1, given |-> p, data |-> p]]
    /\ UNCHANGED <<phase, effects, palettes, info, state, given, data, err, op,
                   serialized, stateBy>>

\* thread t runs the next block of its call
Step(t) ==
    /\ calls[t].pc \in 1..Len(StepOrder)
    /\ LET key == StepOrder[calls[t].pc]
       IN  /\ \E c \in {ApplyStep(key, [self |-> Self, data |-> calls[t].data])} :
                /\ SetSelf(c.self)
                /\ calls' = [calls EXCEPT ![t].pc = @ + 1, ![t].data = c.data]
           /\ stateBy' = IF key = "state" /\ Truthy(Get(calls[t].data, "state", PyNone))
                         THEN calls[t].given ELSE stateBy
    /\ UNCHANGED <<phase, given, data, err, op, serialized>>

NextConc ==
    \/ phase = "new" /\ \E p \in ConcPayloads : Construct(p)
    \/ \E t \in Threads, p \in ConcPayloads : Begin(t, p)
    \/ \E t \in Threads : Step(t)

SpecConc == InitConc /\ [][NextConc]_vars

----------------------------------------------------------------------------
(* Properties *)

\* the payload holds key k with a value that is not None, [] or {}
Supplies(d, k) ==
    /\ k \in DOMAIN d
    /\ d[k] # PyNone
    /\ d[k].v # <<>>

Range(f) == {f[i] : i \in DOMAIN f}

\* the entry of a table that carries a given ID, or the sentinel
EffectWithId(table, id) ==
    LET hits == {e \in Range(table) : e.effect_id = id}
    IN  IF hits = {} THEN [effect_id |-> 0, name |-> "Unknown"]
        ELSE CHOOSE e \in hits : TRUE

PaletteWithId(table, id) ==
    LET hits == {e \in Range(table) : e.palette_id = id}
    IN  IF hits = {} THEN [palette_id |-> 0, name |-> "Unknown"]
        ELSE CHOOSE e \in hits : TRUE

IsSortedByName(table) ==
    \A i, j \in DOMAIN table : i < j => ~StrLess(table[j].name, table[i].name)

\* the segment payloads of the dict handed to the last call
GivenSegs == Get(given["state"].v, "seg", <<>>)

\* C1: update_from_dict replaces effects, palettes, info and state exactly
\* when the payload supplies a truthy value for the key, and leaves a field
\* whose key is absent or falsy as it was before the call.
C1_ReplaceOnlyWhenTruthy ==
    [][err' = "none" =>
        /\ effects' = IF Supplies(given', "effects")
                      THEN BuildEffects(given'["effects"].v) ELSE effects
        /\ palettes' = IF Supplies(given', "palettes")
                       THEN BuildPalettes(given'["palettes"].v) ELSE palettes
        /\ info' = IF Supplies(given', "info")
                   THEN InfoFromDict(given'["info"].v) ELSE info
        /\ state' = IF Supplies(given', "state")
                    THEN StateFromDict(given'["state"].v, effects', palettes')
                    ELSE state]_vars

\* an Update that carries only a state, on a Device that holds catalogs and info
C1_Witness ==
    /\ op = "update"
    /\ DOMAIN given = {"state"}
    /\ Supplies(given, "state")
    /\ effects # <<>>
    /\ palettes # <<>>
    /\ info # Unset

\* C2: constructing a Device from a payload that lacks one of the four keys
\* fails with WLEDError and no Update is applied.
C2_ConstructionError ==
    (op = "construct" /\ \E k \in Range(RequiredKeys) : k \notin DOMAIN given)
        => /\ err = "WLEDError"
           /\ phase = "new"
           /\ effects = <<>> /\ palettes = <<>>
           /\ info = Unset /\ state = Unset

\* a table holds one entry per entry of the array, with the array position as ID
IsCatalogOf(table, idOf(_), names) ==
    /\ Len(table) = Len(names)
    /\ {idOf(e) : e \in Range(table)} = {i - 1 : i \in DOMAIN names}
    /\ \A e \in Range(table) : names[idOf(e) + 1] = e.name

EffectId(e) == e.effect_id
PaletteId(e) == e.palette_id

\* C3: after every call the effects and palettes tables are sorted by name,
\* and a table built by the call gives every entry the position its name had
\* in the payload array as ID.
C3_SortedWithArrayIds ==
    [][/\ IsSortedByName(effects')
       /\ IsSortedByName(palettes')
       /\ (err' = "none" /\ Supplies(given', "effects"))
            => IsCatalogOf(effects', EffectId, given'["effects"].v)
       /\ (err' = "none" /\ Supplies(given', "palettes"))
            => IsCatalogOf(palettes', PaletteId, given'["palettes"].v)]_vars

\* both tables built from arrays that are not in name order
C3_Witness ==
    /\ err = "none"
    /\ Supplies(given, "effects") /\ Supplies(given, "palettes")
    /\ given["effects"].v = <<"Solid", "Blink">>
    /\ given["palettes"].v = <<"Party", "Default">>
    /\ effects = <<[effect_id |-> 1, name |-> "Blink"], [effect_id |-> 0, name |-> "Solid"]>>
    /\ palettes = <<[palette_id |-> 1, name |-> "Default"], [palette_id |-> 0, name |-> "Party"]>>

\* C4: a decoded segment's effect (palette) is the table entry whose ID is the
\* payload's "fx" ("pal"), 0 when the key is absent, and the sentinel
\* {id: 0, name: "Unknown"} when no entry has that ID.
C4_ResolvedById ==
    phase = "ready" =>
        /\ Len(state.segments) = Len(GivenSegs)
        /\ \A i \in DOMAIN GivenSegs :
             /\ state.segments[i].effect
                  = EffectWithId(effects, Get(GivenSegs[i], "fx", 0))
             /\ state.segments[i].palette
                  = PaletteWithId(palettes, Get(GivenSegs[i], "pal", 0))

\* one segment whose effect sits at another position of the sorted table than
\* its ID, and one segment whose effect ID is in no table entry
C4_Witness ==
    /\ phase = "ready"
    /\ \E i \in DOMAIN GivenSegs :
         /\ "fx" \in DOMAIN GivenSegs[i]
         /\ GivenSegs[i]["fx"] = 0
         /\ Len(effects) = 2
         /\ effects[2] = state.segments[i].effect
         /\ state.segments[i].effect.name # "Unknown"
    /\ \E i \in DOMAIN GivenSegs :
         /\ "fx" \in DOMAIN GivenSegs[i]
         /\ GivenSegs[i]["fx"] = MaxId
         /\ state.segments[i].effect = [effect_id |-> 0, name |-> "Unknown"]

\* C5: with n entries in "col", the first min(n, 3) colours are those entries
\* as tuples, in order, and every remaining colour is the tuple (0, 0, 0).
C5_ColorSlots ==
    phase = "ready" =>
        \A i \in DOMAIN GivenSegs :
            LET col == Get(GivenSegs[i], "col", <<>>)
                slot(k) == IF k <= Len(col) THEN PyTuple(col[k])
                           ELSE PyTuple(<<0, 0, 0>>)
            IN  /\ state.segments[i].color_primary = slot(1)
                /\ state.segments[i].color_secondary = slot(2)
                /\ state.segments[i].color_tertiary = slot(3)

\* the catalogs a state of the payload is to be resolved against: those of the
\* same payload where it supplies them, else the ones held before the call
EffectsFor(d, held) ==
    IF Supplies(d, "effects") THEN BuildEffects(d["effects"].v) ELSE held

PalettesFor(d, held) ==
    IF Supplies(d, "palettes") THEN BuildPalettes(d["palettes"].v) ELSE held

\* C6: within one call the catalogs are replaced before the state is decoded:
\* every segment is resolved against the catalog of the same payload, and
\* against the tables held before the call when the payload supplies none.
C6_CatalogBeforeState ==
    [][(err' = "none" /\ Supplies(given', "state")) =>
        LET segs == Get(given'["state"].v, "seg", <<>>)
        IN  /\ Len(state'.segments) = Len(segs)
            /\ \A i \in DOMAIN segs :
                 /\ state'.segments[i].effect
                      = EffectWithId(EffectsFor(given', effects), Get(segs[i], "fx", 0))
                 /\ state'.segments[i].palette
                      = PaletteWithId(PalettesFor(given', palettes), Get(segs[i], "pal", 0))]_vars

\* an Update that supplies a catalog and a state, on a Device built before
C6_Witness ==
    /\ op = "update"
    /\ Supplies(given, "effects") /\ Supplies(given, "palettes")
    /\ Supplies(given, "state")
    /\ given["effects"].v = <<"Blink", "Solid">>
    /\ Len(state.segments) = 2
    /\ state.segments[1].effect = [effect_id |-> 0, name |-> "Blink"]
    /\ state.segments[2].effect = [effect_id |-> 1, name |-> "Solid"]

\* C7: a segment that omits "on" ("bri") takes the on (brightness) of the
\* enclosing State, a segment that supplies the key keeps its own value.
C7_AmbientDefaults ==
    phase = "ready" =>
        \A i \in DOMAIN GivenSegs :
            /\ state.segments[i].on =
                 IF "on" \in DOMAIN GivenSegs[i] THEN GivenSegs[i]["on"] ELSE state.on
            /\ state.segments[i].brightness =
                 IF "bri" \in DOMAIN GivenSegs[i] THEN GivenSegs[i]["bri"]
                 ELSE state.brightness

\* a State that is on with brightness 128, one segment that omits both keys
\* and one segment that supplies both
C7_Witness ==
    /\ phase = "ready"
    /\ state.on = TRUE /\ state.brightness = 128
    /\ \E i \in DOMAIN GivenSegs :
         /\ DOMAIN GivenSegs[i] \cap {"on", "bri"} = {}
         /\ state.segments[i].on = TRUE
         /\ state.segments[i].brightness = 128
    /\ \E i \in DOMAIN GivenSegs :
         /\ {"on", "bri"} \subseteq DOMAIN GivenSegs[i]
         /\ state.segments[i].on = FALSE
         /\ state.segments[i].brightness = 7

\* C8: once constructed, the Device holds a readable value for each of
\* effects, palettes, info and state (effects and palettes always exist, as
\* class attributes).
C8_AllFieldsReadable ==
    phase = "ready" => (info # Unset /\ state # Unset)

\* C9: a call does not alter the dict it is given, and a second call with the
\* same dict leaves the Device as the first call left it.
C9_PayloadUntouched ==
    [][/\ err' = "none" => data' = given'
       /\ op' = "again" => Self' = Self]_vars

\* the state held was decoded from a payload that supplies its own catalogs,
\* yet one of its segments is resolved against another table
Foreign ==
    /\ stateBy # EmptyDict
    /\ LET segs == Get(stateBy["state"].v, "seg", <<>>)
       IN  \E i \in DOMAIN segs :
             \/ state.segments[i].effect
                  # EffectWithId(BuildEffects(stateBy["effects"].v), Get(segs[i], "fx", 0))
             \/ state.segments[i].palette
                  # PaletteWithId(BuildPalettes(stateBy["palettes"].v), Get(segs[i], "pal", 0))

\* C10: when the two calls are serialized, the state held is never resolved
\* against a table other than the one of its own payload; when they
\* interleave, such a state is reached (the witness).
C10_SerializedNeverForeign == serialized => ~Foreign

C10_Witness == ~serialized /\ Foreign

====
